---- MODULE Spec2Model ----
(***************************************************************************)
(* FinSim banking simulator: the data layer (Account, DataManager,         *)
(* StorageManager) and its transfer engine, DataManager.processTransfer.   *)
(*                                                                         *)
(* Strings the code inspects (account ids, IBANs) are sequences of         *)
(* one-character strings.  Money is integral: every balance and amount of  *)
(* the model is an integer, a range in which JavaScript's number           *)
(* arithmetic is exact.  An optional object (null or an object) is a       *)
(* sequence of length 0 or 1.                                              *)
(***************************************************************************)
EXTENDS Integers, Sequences, FiniteSets, TLC

VARIABLES
    accounts,       \* localStorage 'finsim_accounts': the stored Account records
    transactions,   \* localStorage 'finsim_transactions': the stored Transaction records
    nextId,         \* source of fresh generated ids (Date.now() + random suffix)
    acct,           \* an Account instance held in memory by a caller (null or an object)
    ops,            \* number of operations performed so far
    last,           \* the most recent call: its arguments, its outcome, the store before it
    tabs,           \* per browser tab: the position and locals of its running processTransfer
    users,          \* localStorage 'finsim_users': the stored User records
    session,        \* AuthManager.currentUser in memory, and localStorage 'finsim_currentUser'
    admin,          \* AdminManager: currentAdmin and the collections it loaded
    ret             \* the value returned by the most recent call of the pages' managers

authVars == <<users, session, admin, ret>>

vars == <<accounts, transactions, nextId, acct, ops, last, tabs, authVars>>

(***************************************************************************)
(* Bounds of the model.                                                    *)
(***************************************************************************)
MaxAccounts == 2    \* accounts created
MaxOps      == 3    \* operations in one behaviour
MaxFailures == 1    \* storage writes that fail within one processTransfer

StartBalance == 2   \* opening balance passed to createAccount

MaxCalls == 2       \* calls of register and of the admin page in one behaviour
MaxUsers == 2       \* users registered, the one in the opening store included

MaxFeeSteps == 32   \* amounts passed to calculateTransferFee, in steps of FeeStep

Users == {"user_1"}

\* amounts a caller passes: negative, zero, below and above StartBalance
Amounts == {-1, 0, 1, StartBalance + 1}

Null == <<>>

Some(x) == <<x>>

\* nobody logged in: currentUser null in memory and in storage
NoSession == [currentUser |-> Null, stored |-> Null]

\* an AdminManager before init
NoAdmin ==
    [currentAdmin |-> Null, users |-> <<>>, accounts |-> <<>>, transactions |-> <<>>]

NoResult == [op |-> "none", args |-> <<>>, success |-> FALSE, message |-> "", value |-> 0]

(***************************************************************************)
(* Strings.                                                                *)
(***************************************************************************)
AccPrefix == <<"a", "c", "c", "_">>

DigitChars == <<"0", "1", "2", "3", "4", "5", "6", "7", "8", "9">>

\* String.prototype.startsWith
StartsWith(s, p) ==
    /\ Len(s) >= Len(p)
    /\ SubSeq(s, 1, Len(p)) = p

\* s.replace(/\s/g, '')
StripWhitespace(s) == SelectSeq(s, LAMBDA c : c # " ")

\* s.padStart(n, '0')
RECURSIVE PadStart(_, _)
PadStart(s, n) == IF Len(s) >= n THEN s ELSE PadStart(<<"0">> \o s, n)

\* s.match(/.{1,4}/g).join(' ')
RECURSIVE GroupsOfFour(_)
GroupsOfFour(s) ==
    IF Len(s) <= 4 THEN s
    ELSE SubSeq(s, 1, 4) \o <<" ">> \o GroupsOfFour(SubSeq(s, 5, Len(s)))

\* s.substr(2, 12) of Math.random().toString(): the digits after "0."
RandomDigits ==
    { <<"5">>,
      <<"1", "2", "3", "4", "5", "6", "7", "8", "9", "0", "1", "2">> }

(***************************************************************************)
(* Account.                                                                *)
(***************************************************************************)
\* Account.generateId: 'acc_' + Date.now() + '_' + random suffix
generateId(n) == AccPrefix \o <<DigitChars[n + 1]>>

\* Account.generateIBAN, r the random digits drawn
generateIBAN(r) ==
    LET countryCode == <<"F", "S">>
        checkDigits == <<"0", "0">>
        bankCode == <<"F", "I", "N", "S">>
        branchCode == <<"0", "0", "1", "0">>
        accountNumber == PadStart(r, 12)
    IN  countryCode \o checkDigits \o <<" ">> \o bankCode \o branchCode
            \o <<" ">> \o GroupsOfFour(accountNumber)

\* new Account(accountData): accountData.balance || 0, isActive default true
Account(id, userId, iban, type, balance, isActive) ==
    [id |-> id, userId |-> userId, iban |-> iban, type |-> type,
     balance |-> balance, isActive |-> isActive]

\* Account.hasSufficientFunds
hasSufficientFunds(account, amount) == account.balance >= amount

\* the outcome of a method: the object afterwards, or the Error thrown
Returned(account) == [threw |-> FALSE, error |-> "", account |-> account]

Threw(message, account) == [threw |-> TRUE, error |-> message, account |-> account]

\* deposit without the check of the amount
depositUnchecked(account, amount) ==
    Returned([account EXCEPT !.balance = @ + amount])

\* Account.deposit
deposit(account, amount) ==
    IF amount <= 0 THEN Threw("Deposit amount must be positive", account)
    ELSE Returned([account EXCEPT !.balance = @ + amount])

\* withdraw without the check of the funds
withdrawOverdrawn(account, amount) ==
    IF amount <= 0 THEN Threw("Withdrawal amount must be positive", account)
    ELSE Returned([account EXCEPT !.balance = @ - amount])

\* Account.withdraw
withdraw(account, amount) ==
    IF amount <= 0 THEN Threw("Withdrawal amount must be positive", account)
    ELSE IF ~hasSufficientFunds(account, amount) THEN Threw("Insufficient funds", account)
    ELSE Returned([account EXCEPT !.balance = @ - amount])

(***************************************************************************)
(* Transaction.                                                            *)
(***************************************************************************)
\* new Transaction(transactionData)
Transaction(accountId, recipientIBAN, type, amount) ==
    [accountId |-> accountId, recipientIBAN |-> recipientIBAN, type |-> type,
     amount |-> amount, category |-> "transfer", status |-> "completed"]

(***************************************************************************)
(* StorageManager and DataManager.                                         *)
(***************************************************************************)
\* StorageManager.set: the value stored under the key afterwards; ok is FALSE
\* when localStorage.setItem throws (quota), which set() turns into `false`
StorageSet(old, value, ok) == IF ok THEN value ELSE old

\* Array.prototype.find / findIndex: the first of the indices that pass the
\* test, 1-based, 0 for -1
FirstIndex(hits) ==
    IF hits = {} THEN 0 ELSE CHOOSE i \in hits : \A j \in hits : i <= j

\* DataManager.getAccountById
getAccountById(accs, id) ==
    LET i == FirstIndex({k \in 1..Len(accs) : accs[k].id = id})
    IN  IF i = 0 THEN Null ELSE Some(accs[i])

\* a lookup that compares the stored IBAN with the search string as typed
getAccountByIBANAsTyped(accs, iban) ==
    LET i == FirstIndex({k \in 1..Len(accs) : accs[k].iban = iban})
    IN  IF i = 0 THEN Null ELSE Some(accs[i])

\* DataManager.getAccountByIBAN
getAccountByIBAN(accs, iban) ==
    LET i == FirstIndex({k \in 1..Len(accs) :
                            StripWhitespace(accs[k].iban) = StripWhitespace(iban)})
    IN  IF i = 0 THEN Null ELSE Some(accs[i])

\* DataManager.updateAccountBalance: the stored accounts afterwards
updateAccountBalance(accs, accountId, newBalance, ok) ==
    LET i == FirstIndex({k \in 1..Len(accs) : accs[k].id = accountId})
    IN  IF i = 0 THEN accs
        ELSE StorageSet(accs, [accs EXCEPT ![i].balance = newBalance], ok)
\* a createTransaction that stores the newest record first
createTransactionNewestFirst(txns, transaction, ok) ==
    StorageSet(txns, <<transaction>> \o txns, ok)

\* DataManager.createTransaction: the stored transactions afterwards
createTransaction(txns, transaction, ok) ==
    StorageSet(txns, Append(txns, transaction), ok)

\* DataManager.createAccount: the stored accounts afterwards
createAccount(accs, account, ok) ==
    StorageSet(accs, Append(accs, account), ok)

(***************************************************************************)
(* DataManager.processTransfer.                                            *)
(***************************************************************************)
\* a destination identifier as passed by the caller: a string, or a value
\* that is no string (null, undefined, a number)
Str(chars) == [isString |-> TRUE, chars |-> chars]

NotAString == [isString |-> FALSE, chars |-> <<>>]

\* leaving the try block by `throw`: nothing was written
Thrown(kind, message, accs, txns) ==
    [thrown |-> TRUE, kind |-> kind, error |-> message,
     accounts |-> accs, transactions |-> txns, writes |-> <<>>,
     newSenderBalance |-> 0, newRecipientBalance |-> 0]

\* leaving the try block by `return {success: true, ...}`; writes are the
\* values StorageManager.set returned, in the order of the calls
Completed(accs, txns, writes, senderBalance, recipientBalance) ==
    [thrown |-> FALSE, kind |-> "", error |-> "",
     accounts |-> accs, transactions |-> txns, writes |-> writes,
     newSenderBalance |-> senderBalance, newRecipientBalance |-> recipientBalance]

\* a lookup that treats every identifier as an IBAN
ResolveByIBANOnly(accs, toAccountIdentifier) ==
    getAccountByIBAN(accs, toAccountIdentifier.chars)

\* the destination lookup: by id when the identifier starts with 'acc_',
\* otherwise by IBAN
ResolveRecipient(accs, toAccountIdentifier) ==
    IF StartsWith(toAccountIdentifier.chars, AccPrefix)
    THEN getAccountById(accs, toAccountIdentifier.chars)
    ELSE getAccountByIBAN(accs, toAccountIdentifier.chars)

\* fromAccount === toAccount: two instances are never the same object
IsSameObject(fromAccount, toAccount) == FALSE

\* "Prevent transfer to same account"
IsSameAccount(fromAccount, toAccount) == fromAccount.id = toAccount.id

\* a persist step that writes the balance of the source only
PersistSourceOnly(accs, fromAccount, toAccount, okFrom, okTo) ==
    updateAccountBalance(accs, fromAccount.id, fromAccount.balance, okFrom)

\* a persist step that restores the source balance when the second write fails
PersistBalancesOrRollback(accs, fromAccount, toAccount, okFrom, okTo) ==
    LET accs1 == updateAccountBalance(accs, fromAccount.id, fromAccount.balance, okFrom)
    IN  IF okTo
        THEN updateAccountBalance(accs1, toAccount.id, toAccount.balance, okTo)
        ELSE accs

\* "Update accounts in storage": both balances are written, the source first;
\* okFrom and okTo tell whether each StorageManager.set succeeds
PersistBalances(accs, fromAccount, toAccount, okFrom, okTo) ==
    LET accs1 == updateAccountBalance(accs, fromAccount.id, fromAccount.balance, okFrom)
    IN  updateAccountBalance(accs1, toAccount.id, toAccount.balance, okTo)

\* "Create transaction records": the sender's record, then the recipient's
RecordTransfer(txns, fromAccount, toAccount, amount, okSender, okRecipient) ==
    LET txns1 == createTransaction(txns,
                     Transaction(fromAccount.id, toAccount.iban, "transfer", amount),
                     okSender)
    IN  createTransaction(txns1,
            Transaction(toAccount.id, fromAccount.iban, "deposit", amount),
            okRecipient)

\* a commit that writes the debited balance before the amount is validated
CommitTransferDebitFirst(accs, txns, fromAccount, toAccount, amount, ok) ==
    LET debited == [fromAccount EXCEPT !.balance = @ - amount]
        accs1 == updateAccountBalance(accs, fromAccount.id, debited.balance, ok[1])
        w == withdraw(fromAccount, amount)
        d == deposit(toAccount, amount)
    IN  IF w.threw THEN Thrown("Error", w.error, accs1, txns)
        ELSE IF d.threw THEN Thrown("Error", d.error, accs1, txns)
        ELSE Completed(PersistBalances(accs, w.account, d.account, ok[1], ok[2]),
                       RecordTransfer(txns, w.account, d.account, amount, ok[3], ok[4]),
                       ok, w.account.balance, d.account.balance)

\* "Process transfer" and what follows it: the statements after the last
\* validation; ok[k] tells whether the k-th StorageManager.set succeeds
CommitTransfer(accs, txns, fromAccount, toAccount, amount, ok) ==
    LET w == withdraw(fromAccount, amount)
        d == deposit(toAccount, amount)
    IN  IF w.threw THEN Thrown("Error", w.error, accs, txns)
        ELSE IF d.threw THEN Thrown("Error", d.error, accs, txns)
        ELSE Completed(PersistBalances(accs, w.account, d.account, ok[1], ok[2]),
                       RecordTransfer(txns, w.account, d.account, amount, ok[3], ok[4]),
                       ok, w.account.balance, d.account.balance)

\* the try block of processTransfer
TransferTry(accs, txns, fromAccountId, toAccountIdentifier, amount, ok) ==
    LET fromAccount == getAccountById(accs, fromAccountId)
        toAccount == ResolveRecipient(accs, toAccountIdentifier)
    IN  IF fromAccount = Null
        THEN Thrown("Error", "Sender account not found", accs, txns)
        ELSE IF ~hasSufficientFunds(fromAccount[1], amount)
        THEN Thrown("Error", "Insufficient funds", accs, txns)
        ELSE IF ~toAccountIdentifier.isString
        THEN Thrown("TypeError", "toAccountIdentifier.startsWith is not a function",
                    accs, txns)
        ELSE IF toAccount = Null
        THEN Thrown("Error", "Recipient account not found", accs, txns)
        ELSE IF ~toAccount[1].isActive
        THEN Thrown("Error", "Recipient account is inactive", accs, txns)
        ELSE IF IsSameAccount(fromAccount[1], toAccount[1])
        THEN Thrown("Error", "Cannot transfer to the same account", accs, txns)
        ELSE CommitTransfer(accs, txns, fromAccount[1], toAccount[1], amount, ok)

\* a catch block that handles the Errors the engine throws itself and lets
\* any other exception reject the promise
CatchOwnErrors(t) ==
    [accounts |-> t.accounts, transactions |-> t.transactions, writes |-> t.writes,
     rejected |-> t.thrown /\ t.kind # "Error",
     success |-> ~t.thrown,
     error |-> IF t.kind = "Error" THEN t.error ELSE "",
     newSenderBalance |-> t.newSenderBalance,
     newRecipientBalance |-> t.newRecipientBalance]

\* the catch block: every exception becomes {success: false, error: message}
CatchAll(t) ==
    [accounts |-> t.accounts, transactions |-> t.transactions, writes |-> t.writes,
     rejected |-> FALSE,
     success |-> ~t.thrown,
     error |-> t.error,
     newSenderBalance |-> t.newSenderBalance,
     newRecipientBalance |-> t.newRecipientBalance]

\* DataManager.processTransfer: the store afterwards and the value the
\* returned promise settles with
processTransfer(accs, txns, fromAccountId, toAccountIdentifier, amount, ok) ==
    CatchAll(TransferTry(accs, txns, fromAccountId, toAccountIdentifier, amount, ok))

(***************************************************************************)
(* The state machine of one page (one tab): every handler runs to          *)
(* completion before the next starts.                                      *)
(***************************************************************************)
\* outcomes of the four StorageManager.set calls of one transfer
OkPatterns ==
    {f \in [1..4 -> BOOLEAN] : Cardinality({k \in 1..4 : ~f[k]}) <= MaxFailures}

AllOk == [k \in 1..4 |-> TRUE]

\* the outcomes to consider for one call: a call that throws before its first
\* write consults none
WritesOf(accs, txns, fromAccountId, toAccountIdentifier, amount) ==
    IF TransferTry(accs, txns, fromAccountId, toAccountIdentifier, amount, AllOk).thrown
    THEN {AllOk}
    ELSE OkPatterns

\* what a caller may pass as the source account id
SourceInputs == {generateId(n) : n \in 0..MaxAccounts}

\* what a caller may pass as the destination: an account id, an IBAN as
\* generated, the same IBAN typed without spaces, or a value that is no string
DestinationInputs ==
    {Str(generateId(n)) : n \in 0..MaxAccounts}
        \cup {Str(generateIBAN(r)) : r \in RandomDigits}
        \cup {Str(StripWhitespace(generateIBAN(<<"5">>)))}
        \cup {NotAString}

NoCall ==
    [op |-> "none", from |-> <<>>, to |-> NotAString, amount |-> 0,
     threw |-> FALSE, rejected |-> FALSE, success |-> FALSE, error |-> "",
     writes |-> <<>>, newSenderBalance |-> 0, newRecipientBalance |-> 0,
     accountsBefore |-> <<>>, transactionsBefore |-> <<>>, acctBefore |-> Null]

Init ==
    /\ accounts = <<>>
    /\ transactions = <<>>
    /\ nextId = 1
    /\ acct = Null
    /\ ops = 0
    /\ last = NoCall
    /\ tabs = <<>>
    /\ users = <<>>
    /\ session = NoSession
    /\ admin = NoAdmin
    /\ ret = NoResult

\* dataManager.createAccount({userId, balance, isActive}): id and IBAN are
\* generated; ok tells whether the write is stored (Next creates accounts
\* with the write succeeding)
CreateAccount(userId, r, balance, isActive, ok) ==
    /\ ops < MaxOps
    /\ nextId <= MaxAccounts
    /\ accounts' = createAccount(accounts,
                       Account(generateId(nextId), userId, generateIBAN(r),
                               "checking", balance, isActive), ok)
    /\ nextId' = nextId + 1
    /\ ops' = ops + 1
    /\ last' = [NoCall EXCEPT !.op = "createAccount",
                              !.accountsBefore = accounts,
                              !.transactionsBefore = transactions,
                              !.acctBefore = acct]
    /\ UNCHANGED <<authVars, transactions, acct, tabs>>

\* await dataManager.processTransfer(fromAccountId, toAccountIdentifier, amount)
ProcessTransfer(fromAccountId, toAccountIdentifier, amount) ==
    /\ ops < MaxOps
    /\ \E ok \in WritesOf(accounts, transactions,
                          fromAccountId, toAccountIdentifier, amount) :
        LET t == processTransfer(accounts, transactions,
                                 fromAccountId, toAccountIdentifier, amount, ok)
        IN  /\ accounts' = t.accounts
            /\ transactions' = t.transactions
            /\ last' = [NoCall EXCEPT !.op = "processTransfer",
                                      !.from = fromAccountId,
                                      !.to = toAccountIdentifier,
                                      !.amount = amount,
                                      !.rejected = t.rejected,
                                      !.success = t.success,
                                      !.error = t.error,
                                      !.writes = t.writes,
                                      !.newSenderBalance = t.newSenderBalance,
                                      !.newRecipientBalance = t.newRecipientBalance,
                                      !.accountsBefore = accounts,
                                      !.transactionsBefore = transactions,
                                      !.acctBefore = acct]
    /\ ops' = ops + 1
    /\ UNCHANGED <<authVars, nextId, acct, tabs>>

\* const account = dataManager.getAccountById(id)
GetAccountById(id) ==
    /\ ops < MaxOps
    /\ acct' = getAccountById(accounts, id)
    /\ ops' = ops + 1
    /\ last' = [NoCall EXCEPT !.op = "getAccountById",
                              !.from = id,
                              !.accountsBefore = accounts,
                              !.transactionsBefore = transactions,
                              !.acctBefore = acct]
    /\ UNCHANGED <<authVars, accounts, transactions, nextId, tabs>>

\* account.deposit(amount) on the instance held in memory
Deposit(amount) ==
    /\ ops < MaxOps
    /\ acct # Null
    /\ LET d == deposit(acct[1], amount)
       IN  /\ acct' = Some(d.account)
           /\ last' = [NoCall EXCEPT !.op = "deposit",
                                     !.amount = amount,
                                     !.threw = d.threw,
                                     !.error = d.error,
                                     !.accountsBefore = accounts,
                                     !.transactionsBefore = transactions,
                                     !.acctBefore = acct]
    /\ ops' = ops + 1
    /\ UNCHANGED <<authVars, accounts, transactions, nextId, tabs>>

\* account.withdraw(amount) on the instance held in memory
Withdraw(amount) ==
    /\ ops < MaxOps
    /\ acct # Null
    /\ LET w == withdraw(acct[1], amount)
       IN  /\ acct' = Some(w.account)
           /\ last' = [NoCall EXCEPT !.op = "withdraw",
                                     !.amount = amount,
                                     !.threw = w.threw,
                                     !.error = w.error,
                                     !.accountsBefore = accounts,
                                     !.transactionsBefore = transactions,
                                     !.acctBefore = acct]
    /\ ops' = ops + 1
    /\ UNCHANGED <<authVars, accounts, transactions, nextId, tabs>>

Next ==
    \/ \E userId \in Users, r \in RandomDigits, isActive \in BOOLEAN :
            CreateAccount(userId, r, StartBalance, isActive, TRUE)
    \/ \E fromAccountId \in SourceInputs, toAccountIdentifier \in DestinationInputs,
          amount \in Amounts :
            ProcessTransfer(fromAccountId, toAccountIdentifier, amount)
    \/ \E id \in SourceInputs : GetAccountById(id)
    \/ \E amount \in Amounts : Deposit(amount)
    \/ \E amount \in Amounts : Withdraw(amount)

Spec == Init /\ [][Next]_vars

(***************************************************************************)
(* Two pages (browser tabs) on one localStorage.  Within a page a handler  *)
(* is synchronous, but the other page runs in its own process: its         *)
(* localStorage.getItem and setItem calls fall anywhere between those of   *)
(* this page.  Each step below is one access of the shared store together  *)
(* with the in-memory statements that follow it.  Storage writes succeed.  *)
(***************************************************************************)
Tabs == {1, 2}

IdleTab ==
    [pc |-> "idle", from |-> <<>>, to |-> NotAString, amount |-> 0,
     fromAccount |-> Null, toAccount |-> Null, snapshot |-> <<>>,
     readBalance |-> 0, success |-> FALSE, error |-> ""]

\* the store both pages open on: two active accounts created by createAccount
SeedAccounts ==
    LET first == Account(generateId(1), "user_1", generateIBAN(<<"5">>),
                         "checking", StartBalance, TRUE)
        second == Account(generateId(2), "user_1",
                          generateIBAN(<<"1", "2", "3", "4", "5", "6",
                                         "7", "8", "9", "0", "1", "2">>),
                          "checking", StartBalance, TRUE)
    IN  createAccount(createAccount(<<>>, first, TRUE), second, TRUE)

TabSources == {SeedAccounts[i].id : i \in 1..Len(SeedAccounts)}

TabDestinations ==
    {Str(id) : id \in TabSources} \cup {Str(SeedAccounts[2].iban)}

TabAmounts == {1, StartBalance}

InitTabs ==
    /\ accounts = SeedAccounts
    /\ transactions = <<>>
    /\ nextId = Len(SeedAccounts) + 1
    /\ acct = Null
    /\ ops = 0
    /\ last = NoCall
    /\ tabs = <<IdleTab, IdleTab>>
    /\ users = <<>>
    /\ session = NoSession
    /\ admin = NoAdmin
    /\ ret = NoResult

\* the catch block of processTransfer, in the page t
TabFails(t, message) ==
    tabs' = [tabs EXCEPT ![t].pc = "done", ![t].success = FALSE, ![t].error = message]

\* a write that merges: the change of the balance is applied to what is stored now
WriteBalanceMerged(stored, snapshot, accountId, newBalance) ==
    LET i == FirstIndex({k \in 1..Len(stored) : stored[k].id = accountId})
        j == FirstIndex({k \in 1..Len(snapshot) : snapshot[k].id = accountId})
    IN  updateAccountBalance(stored, accountId,
            stored[i].balance + newBalance - snapshot[j].balance, TRUE)

\* updateAccountBalance, from `accounts[accountIndex].balance = newBalance` on:
\* the collection read before, with the one balance replaced, replaces
\* whatever is stored now
WriteBalance(stored, snapshot, accountId, newBalance) ==
    updateAccountBalance(snapshot, accountId, newBalance, TRUE)

\* the page calls dataManager.processTransfer(from, to, amount)
TabStart(t, fromAccountId, toAccountIdentifier, amount) ==
    /\ tabs[t].pc = "idle"
    /\ tabs' = [tabs EXCEPT ![t] = [IdleTab EXCEPT !.pc = "readSource",
                                                   !.from = fromAccountId,
                                                   !.to = toAccountIdentifier,
                                                   !.amount = amount]]
    /\ UNCHANGED <<authVars, accounts, transactions, nextId, acct, ops, last>>

\* getAccountById(fromAccountId) and the two checks of the source
TabReadSource(t) ==
    /\ tabs[t].pc = "readSource"
    /\ LET fromAccount == getAccountById(accounts, tabs[t].from)
       IN  IF fromAccount = Null
           THEN TabFails(t, "Sender account not found")
           ELSE IF ~hasSufficientFunds(fromAccount[1], tabs[t].amount)
           THEN TabFails(t, "Insufficient funds")
           ELSE tabs' = [tabs EXCEPT ![t].pc = "readRecipient",
                                     ![t].fromAccount = fromAccount,
                                     ![t].readBalance = fromAccount[1].balance]
    /\ UNCHANGED <<authVars, accounts, transactions, nextId, acct, ops, last>>

\* the destination lookup, its checks, then withdraw and deposit in memory
TabReadRecipient(t) ==
    /\ tabs[t].pc = "readRecipient"
    /\ LET fromAccount == tabs[t].fromAccount[1]
           toAccount == ResolveRecipient(accounts, tabs[t].to)
           w == withdraw(fromAccount, tabs[t].amount)
           d == deposit(toAccount[1], tabs[t].amount)
       IN  IF toAccount = Null
           THEN TabFails(t, "Recipient account not found")
           ELSE IF ~toAccount[1].isActive
           THEN TabFails(t, "Recipient account is inactive")
           ELSE IF IsSameAccount(fromAccount, toAccount[1])
           THEN TabFails(t, "Cannot transfer to the same account")
           ELSE IF w.threw THEN TabFails(t, w.error)
           ELSE IF d.threw THEN TabFails(t, d.error)
           ELSE tabs' = [tabs EXCEPT ![t].pc = "getSource",
                                     ![t].fromAccount = Some(w.account),
                                     ![t].toAccount = Some(d.account)]
    /\ UNCHANGED <<authVars, accounts, transactions, nextId, acct, ops, last>>

\* updateAccountBalance: const accounts = this.storage.get('accounts', [])
TabGetAccounts(t) ==
    /\ tabs[t].pc \in {"getSource", "getRecipient"}
    /\ tabs' = [tabs EXCEPT ![t].snapshot = accounts,
                            ![t].pc = IF @ = "getSource" THEN "setSource"
                                      ELSE "setRecipient"]
    /\ UNCHANGED <<authVars, accounts, transactions, nextId, acct, ops, last>>

\* updateAccountBalance: this.storage.set('accounts', accounts)
TabSetAccounts(t) ==
    /\ tabs[t].pc \in {"setSource", "setRecipient"}
    /\ LET account == IF tabs[t].pc = "setSource" THEN tabs[t].fromAccount[1]
                      ELSE tabs[t].toAccount[1]
       IN  accounts' = WriteBalance(accounts, tabs[t].snapshot,
                                    account.id, account.balance)
    /\ tabs' = [tabs EXCEPT ![t].snapshot = <<>>,
                            ![t].pc = IF @ = "setSource" THEN "getRecipient"
                                      ELSE "getSenderRecord"]
    /\ UNCHANGED <<authVars, transactions, nextId, acct, ops, last>>

\* createTransaction: const transactions = this.storage.get('transactions', [])
TabGetTransactions(t) ==
    /\ tabs[t].pc \in {"getSenderRecord", "getRecipientRecord"}
    /\ tabs' = [tabs EXCEPT ![t].snapshot = transactions,
                            ![t].pc = IF @ = "getSenderRecord" THEN "setSenderRecord"
                                      ELSE "setRecipientRecord"]
    /\ UNCHANGED <<authVars, accounts, transactions, nextId, acct, ops, last>>

\* createTransaction: push and this.storage.set('transactions', transactions);
\* after the second record, return {success: true, ...}
TabSetTransactions(t) ==
    /\ tabs[t].pc \in {"setSenderRecord", "setRecipientRecord"}
    /\ LET fromAccount == tabs[t].fromAccount[1]
           toAccount == tabs[t].toAccount[1]
           record == IF tabs[t].pc = "setSenderRecord"
                     THEN Transaction(fromAccount.id, toAccount.iban,
                                      "transfer", tabs[t].amount)
                     ELSE Transaction(toAccount.id, fromAccount.iban,
                                      "deposit", tabs[t].amount)
       IN  transactions' = createTransaction(tabs[t].snapshot, record, TRUE)
    /\ tabs' = [tabs EXCEPT ![t].snapshot = <<>>,
                            ![t].success = (tabs[t].pc = "setRecipientRecord"),
                            ![t].pc = IF @ = "setSenderRecord" THEN "getRecipientRecord"
                                      ELSE "done"]
    /\ UNCHANGED <<authVars, accounts, nextId, acct, ops, last>>

NextTabs ==
    \E t \in Tabs :
        \/ \E fromAccountId \in TabSources, toAccountIdentifier \in TabDestinations,
              amount \in TabAmounts :
                TabStart(t, fromAccountId, toAccountIdentifier, amount)
        \/ TabReadSource(t)
        \/ TabReadRecipient(t)
        \/ TabGetAccounts(t)
        \/ TabSetAccounts(t)
        \/ TabGetTransactions(t)
        \/ TabSetTransactions(t)

SpecTabs == InitTabs /\ [][NextTabs]_vars

(***************************************************************************)
(* Calls of processTransfer made in one page.  The page runs one piece of  *)
(* JavaScript at a time: a call runs from where it stands to its next      *)
(* suspension point or to its end, and only there does another call or a   *)
(* continuation run.  Storage writes succeed.                              *)
(***************************************************************************)
\* a processTransfer that awaits between its validations and "Process transfer"
AwaitsBeforeWrites == TRUE

\* the body of processTransfer holds no await: nothing is awaited between
\* `if (!fromAccount.hasSufficientFunds(amount))` and the last createTransaction
SuspendsBeforeWrites == FALSE

\* the call t in the page runs: a call not yet made is made with the given
\* arguments and validates against the store; a call parked at an await
\* resumes with the instances it holds; the statements from "Process
\* transfer" on follow
PageRun(t, fromAccountId, toAccountIdentifier, amount) ==
    LET started == tabs[t].pc = "idle"
        from == IF started THEN fromAccountId ELSE tabs[t].from
        to == IF started THEN toAccountIdentifier ELSE tabs[t].to
        amt == IF started THEN amount ELSE tabs[t].amount
        try == TransferTry(accounts, transactions, from, to, amt, AllOk)
        fromAccount == IF started THEN getAccountById(accounts, from)
                       ELSE tabs[t].fromAccount
        toAccount == IF started THEN ResolveRecipient(accounts, to)
                     ELSE tabs[t].toAccount
        commit == CommitTransfer(accounts, transactions, fromAccount[1],
                                 toAccount[1], amt, AllOk)
        call == [tabs[t] EXCEPT !.from = from, !.to = to, !.amount = amt,
                                !.fromAccount = fromAccount,
                                !.toAccount = toAccount,
                                !.readBalance = IF ~started THEN @
                                                ELSE IF fromAccount = Null THEN 0
                                                ELSE fromAccount[1].balance]
    IN  /\ tabs[t].pc \in {"idle", "awaiting"}
        /\ IF started /\ try.thrown
           THEN /\ tabs' = [tabs EXCEPT ![t] = [call EXCEPT !.pc = "done",
                                                            !.success = FALSE,
                                                            !.error = try.error]]
                /\ UNCHANGED <<accounts, transactions>>
           ELSE IF started /\ SuspendsBeforeWrites
           THEN /\ tabs' = [tabs EXCEPT ![t] = [call EXCEPT !.pc = "awaiting"]]
                /\ UNCHANGED <<accounts, transactions>>
           ELSE /\ accounts' = commit.accounts
                /\ transactions' = commit.transactions
                /\ tabs' = [tabs EXCEPT ![t] = [call EXCEPT !.pc = "done",
                                                            !.success = ~commit.thrown,
                                                            !.error = commit.error]]
        /\ UNCHANGED <<authVars, nextId, acct, ops, last>>

NextPage ==
    \E t \in Tabs, fromAccountId \in TabSources,
       toAccountIdentifier \in TabDestinations, amount \in TabAmounts :
        PageRun(t, fromAccountId, toAccountIdentifier, amount)

SpecPage == InitTabs /\ [][NextPage]_vars

(***************************************************************************)
(* IBANs: the validator, and lookups by IBAN over the accounts created.    *)
(***************************************************************************)
\* [0-9]
IsDigit(c) == \E i \in 1..Len(DigitChars) : DigitChars[i] = c

\* String.prototype.trim
RECURSIVE Trim(_)
Trim(s) ==
    IF s = <<>> THEN s
    ELSE IF Head(s) = " " THEN Trim(Tail(s))
    ELSE IF s[Len(s)] = " " THEN Trim(SubSeq(s, 1, Len(s) - 1))
    ELSE s

\* /^FS[0-9]{2} FINS[0-9]{4} [0-9]{4} [0-9]{4} [0-9]{4} [0-9]{4}$/, "#" for [0-9]
ibanRegex ==
    <<"F", "S", "#", "#", " ", "F", "I", "N", "S", "#", "#", "#", "#",
      " ", "#", "#", "#", "#", " ", "#", "#", "#", "#",
      " ", "#", "#", "#", "#", " ", "#", "#", "#", "#">>

\* ibanRegex.test(s)
RegexTest(pattern, s) ==
    /\ Len(s) = Len(pattern)
    /\ \A i \in 1..Len(pattern) :
        IF pattern[i] = "#" THEN IsDigit(s[i]) ELSE s[i] = pattern[i]

\* Account.isValidIBAN
isValidIBAN(iban) ==
    IF ~iban.isString \/ iban.chars = <<>> THEN FALSE
    ELSE RegexTest(ibanRegex, Trim(iban.chars))

\* the README's example of the format, FS00 FINS0010 XXXX XXXX XXXX XXXX
DocumentedIBAN ==
    <<"F", "S", "0", "0", " ", "F", "I", "N", "S", "0", "0", "1", "0",
      " ", "1", "2", "3", "4", " ", "5", "6", "7", "8",
      " ", "9", "0", "1", "2", " ", "3", "4", "5", "6">>

\* what a caller may pass to getAccountByIBAN: an IBAN as generated, the same
\* without spaces, with spaces around it, cut short by a character, and an
\* IBAN no account has
IbanInputs ==
    LET generated == {generateIBAN(r) : r \in RandomDigits}
    IN  generated
            \cup {StripWhitespace(s) : s \in generated}
            \cup {<<" ">> \o generateIBAN(<<"5">>) \o <<" ">>}
            \cup {SubSeq(generateIBAN(<<"5">>), 1, Len(generateIBAN(<<"5">>)) - 1)}
            \cup {DocumentedIBAN}

\* const account = dataManager.getAccountByIBAN(iban)
GetAccountByIBAN(iban) ==
    /\ ops < MaxOps
    /\ acct' = getAccountByIBAN(accounts, iban)
    /\ ops' = ops + 1
    /\ last' = [NoCall EXCEPT !.op = "getAccountByIBAN",
                              !.to = Str(iban),
                              !.accountsBefore = accounts,
                              !.transactionsBefore = transactions,
                              !.acctBefore = acct]
    /\ UNCHANGED <<authVars, accounts, transactions, nextId, tabs>>

NextIban ==
    \/ \E userId \in Users, r \in RandomDigits, isActive \in BOOLEAN :
        CreateAccount(userId, r, StartBalance, isActive, TRUE)
    \/ \E iban \in IbanInputs : GetAccountByIBAN(iban)

SpecIban == Init /\ [][NextIban]_vars

(***************************************************************************)
(* The ledger: accounts, transfers, and records created one at a time.     *)
(***************************************************************************)
\* dataManager.createTransaction({accountId, type, amount}); ok tells whether
\* the write is stored
CreateTransaction(accountId, type, amount, ok) ==
    /\ ops < MaxOps
    /\ transactions' = createTransaction(transactions,
                           Transaction(accountId, <<>>, type, amount), ok)
    /\ ops' = ops + 1
    /\ last' = [NoCall EXCEPT !.op = "createTransaction",
                              !.from = accountId,
                              !.amount = amount,
                              !.writes = <<ok>>,
                              !.accountsBefore = accounts,
                              !.transactionsBefore = transactions,
                              !.acctBefore = acct]
    /\ UNCHANGED <<authVars, accounts, nextId, acct, tabs>>

NextLedger ==
    \/ \E userId \in Users, r \in RandomDigits, isActive \in BOOLEAN :
            CreateAccount(userId, r, StartBalance, isActive, TRUE)
    \/ \E fromAccountId \in SourceInputs, toAccountIdentifier \in DestinationInputs,
          amount \in Amounts :
            ProcessTransfer(fromAccountId, toAccountIdentifier, amount)
    \/ \E type \in {"deposit", "withdrawal"}, ok \in BOOLEAN :
            CreateTransaction(generateId(1), type, 1, ok)

SpecLedger == Init /\ [][NextLedger]_vars

(***************************************************************************)
(* The transfer fee of the dashboard.  Amounts are in cents; the products  *)
(* amount * 0.01 and amount * 0.02 are in points, hundredths of a cent, so *)
(* that they are integers.                                                 *)
(***************************************************************************)
PointsPerCent == 100

Dollars(n) == n * 100 * PointsPerCent

\* Math.min and Math.max
MathMin(x, y) == IF x <= y THEN x ELSE y

MathMax(x, y) == IF x >= y THEN x ELSE y

\* a clamp with the two bounds exchanged
ClampCrossed(x, lo, hi) == MathMin(lo, MathMax(x, hi))

\* Math.max(lo, Math.min(x, hi))
Clamp(x, lo, hi) == MathMax(lo, MathMin(x, hi))

\* parseFloat(fee.toFixed(2)), in cents, of a positive fee given in points:
\* the nearest cent.  The fee is a binary floating-point number: when the
\* exact product lies half-way between two cents the double lies just below
\* or just above it, and toFixed follows the double to either cent.
ToFixed2(points) ==
    LET below == points \div PointsPerCent
        rest == points % PointsPerCent
    IN  IF 2 * rest < PointsPerCent THEN {below}
        ELSE IF 2 * rest > PointsPerCent THEN {below + 1}
        ELSE {below, below + 1}

\* DashboardManager.calculateTransferFee: the values it can return, in cents
calculateTransferFee(amount, isExternal) ==
    IF ~isExternal
    THEN ToFixed2(Clamp(amount * 1, Dollars(1), Dollars(5)))
    ELSE ToFixed2(Clamp(amount * 2, Dollars(2), Dollars(15)))

FeeStep == 2525

\* amounts in cents: negative, zero, and up past the amount at which the
\* external fee reaches its maximum
FeeAmounts == {k * FeeStep : k \in -1..MaxFeeSteps}

InitFee ==
    /\ accounts = SeedAccounts
    /\ transactions = <<>>
    /\ nextId = Len(SeedAccounts) + 1
    /\ acct = Null
    /\ ops = 0
    /\ last = NoCall
    /\ tabs = <<>>
    /\ users = <<>>
    /\ session = NoSession
    /\ admin = NoAdmin
    /\ ret = NoResult

\* const fee = this.calculateTransferFee(amount, isExternal)
CalculateTransferFee(amount, isExternal) ==
    /\ ops < MaxOps
    /\ \E fee \in calculateTransferFee(amount, isExternal) :
        ret' = [NoResult EXCEPT !.op = "calculateTransferFee",
                                !.args = <<amount, isExternal>>,
                                !.success = TRUE,
                                !.value = fee]
    /\ last' = [NoCall EXCEPT !.op = "calculateTransferFee",
                              !.amount = amount,
                              !.accountsBefore = accounts,
                              !.transactionsBefore = transactions,
                              !.acctBefore = acct]
    /\ ops' = ops + 1
    /\ UNCHANGED <<accounts, transactions, nextId, acct, tabs, users, session, admin>>

NextFee ==
    \E amount \in FeeAmounts, isExternal \in BOOLEAN :
        CalculateTransferFee(amount, isExternal)

SpecFee == InitFee /\ [][NextFee]_vars

(***************************************************************************)
(* Users and the AuthManager.  A user record keeps the fields the code     *)
(* decides on: id, email, password (the stored hash), role, isActive and   *)
(* lastLogin; first and last names only matter as required form fields.    *)
(***************************************************************************)
LowerChars ==
    <<"a", "b", "c", "d", "e", "f", "g", "h", "i", "j", "k", "l", "m",
      "n", "o", "p", "q", "r", "s", "t", "u", "v", "w", "x", "y", "z">>

UpperChars ==
    <<"A", "B", "C", "D", "E", "F", "G", "H", "I", "J", "K", "L", "M",
      "N", "O", "P", "Q", "R", "S", "T", "U", "V", "W", "X", "Y", "Z">>

IndexIn(alphabet, c) == FirstIndex({i \in 1..Len(alphabet) : alphabet[i] = c})

\* String.prototype.toLowerCase
ToLowerCase(s) ==
    [i \in 1..Len(s) |->
        IF IndexIn(UpperChars, s[i]) # 0 THEN LowerChars[IndexIn(UpperChars, s[i])]
        ELSE s[i]]

\* User.generateId: 'user_' + Date.now() + '_' + random suffix
generateUserId(n) ==
    <<"user_0", "user_1", "user_2", "user_3", "user_4",
      "user_5", "user_6", "user_7", "user_8", "user_9">>[n + 1]

\* new User(userData): role default 'user', lastLogin null (0), isActive true
User(id, email, password, role) ==
    [id |-> id, email |-> email, password |-> password, role |-> role,
     isActive |-> TRUE, lastLogin |-> 0]

\* btoa, the base-64 encoding of a string
Btoa(s) == [base64 |-> s]

\* AuthManager.hashPassword: btoa(password + 'finsim_salt_v2')
hashPassword(password) == Btoa(password \o <<"finsim_salt_v2">>)

\* AuthManager.isValidEmail: /^[^\s@]+@[^\s@]+\.[^\s@]+$/
isValidEmail(email) ==
    LET ats == {i \in 1..Len(email) : email[i] = "@"}
        at == FirstIndex(ats)
    IN  /\ Cardinality(ats) = 1
        /\ \A i \in 1..Len(email) : email[i] # " "
        /\ at > 1
        /\ \E dot \in (at + 2)..(Len(email) - 1) : email[dot] = "."

\* DataManager.getUserByEmail
getUserByEmail(stored, email) ==
    LET i == FirstIndex({k \in 1..Len(stored) : stored[k].email = email})
    IN  IF i = 0 THEN Null ELSE Some(stored[i])

\* DataManager.createUser: the stored users afterwards
createUser(stored, user, ok) == StorageSet(stored, Append(stored, user), ok)

\* DataManager.updateUser(userId, {lastLogin}): the stored users afterwards
updateUserLoginTime(stored, userId, now, ok) ==
    LET i == FirstIndex({k \in 1..Len(stored) : stored[k].id = userId})
    IN  IF i = 0 THEN stored
        ELSE StorageSet(stored, [stored EXCEPT ![i].lastLogin = now], ok)

\* AuthManager.validateRegistrationData: the message of the Error thrown, or ""
validateRegistrationData(userData) ==
    IF \E field \in {"email", "password", "confirmPassword", "firstName", "lastName"} :
            Trim(userData[field]) = <<>>
    THEN "Missing required fields"
    ELSE IF ~isValidEmail(userData.email) THEN "Please enter a valid email address"
    ELSE ""

\* AuthManager.checkUserExists
checkUserExists(stored, email) ==
    IF getUserByEmail(stored, email) # Null
    THEN "An account with this email already exists"
    ELSE ""

\* AuthManager.validatePasswordStrength
validatePasswordStrength(password) ==
    LET hasUpperCase == \E i \in 1..Len(password) : IndexIn(UpperChars, password[i]) # 0
        hasLowerCase == \E i \in 1..Len(password) : IndexIn(LowerChars, password[i]) # 0
        hasNumbers == \E i \in 1..Len(password) : IsDigit(password[i])
        passedChecks == Cardinality({c \in {<<1, hasUpperCase>>, <<2, hasLowerCase>>,
                                            <<3, hasNumbers>>} : c[2]})
    IN  IF Len(password) < 6 THEN "Password must be at least 6 characters long"
        ELSE IF passedChecks < 2
        THEN "Password should include uppercase, lowercase letters and numbers"
        ELSE ""

\* AuthManager.confirmPasswordMatch
confirmPasswordMatch(password, confirmPassword) ==
    IF password # confirmPassword THEN "Passwords do not match" ELSE ""

\* AuthManager.createUserAccount: the User that dataManager.createUser builds
createUserAccount(userData, id) ==
    User(id, ToLowerCase(Trim(userData.email)), hashPassword(userData.password), "user")

\* AuthManager.setupUserEnvironment: createAccount(userId, 'checking', 1000.00)
\* and createAccount(userId, 'savings', 500.00); the stored accounts afterwards
setupUserEnvironment(accs, userId, n, r, okChecking, okSavings) ==
    LET accs1 == createAccount(accs,
                     Account(generateId(n), userId, generateIBAN(r[1]),
                             "checking", 1000, TRUE), okChecking)
    IN  createAccount(accs1,
            Account(generateId(n + 1), userId, generateIBAN(r[2]),
                    "savings", 500, TRUE), okSavings)

\* the result of a login and the stored users and the session after it
LoginResult(stored, sess, success, message) ==
    [users |-> stored, session |-> sess, success |-> success, message |-> message]

\* a login that does not look at the isActive flag of the user
loginAnyStatus(stored, sess, email, password, now, okSession, okUsers) ==
    LET user == getUserByEmail(stored, email)
    IN  IF Trim(email) = <<>> \/ Trim(password) = <<>>
        THEN LoginResult(stored, sess, FALSE, "Please enter both email and password")
        ELSE IF user = Null \/ hashPassword(password) # user[1].password
        THEN LoginResult(stored, sess, FALSE, "Invalid email or password")
        ELSE LoginResult(updateUserLoginTime(stored, user[1].id, now, okUsers),
                         [currentUser |-> user,
                          stored |-> StorageSet(sess.stored, user, okSession)],
                         TRUE, "")

\* AuthManager.login; now is the clock, okSession and okUsers tell whether
\* the writes of 'currentUser' and of 'users' succeed
login(stored, sess, email, password, now, okSession, okUsers) ==
    LET user == getUserByEmail(stored, email)
    IN  IF Trim(email) = <<>> \/ Trim(password) = <<>>
        THEN LoginResult(stored, sess, FALSE, "Please enter both email and password")
        ELSE IF user = Null
        THEN LoginResult(stored, sess, FALSE, "Invalid email or password")
        ELSE IF ~user[1].isActive
        THEN LoginResult(stored, sess, FALSE,
                         "Account is deactivated. Please contact support.")
        ELSE IF hashPassword(password) # user[1].password
        THEN LoginResult(stored, sess, FALSE, "Invalid email or password")
        ELSE LoginResult(updateUserLoginTime(stored, user[1].id, now, okUsers),
                         [currentUser |-> user,
                          stored |-> StorageSet(sess.stored, user, okSession)],
                         TRUE, "")

\* the first message that is not "", or "" when there is none
RECURSIVE FirstError(_)
FirstError(messages) ==
    IF messages = <<>> THEN ""
    ELSE IF Head(messages) # "" THEN Head(messages)
    ELSE FirstError(Tail(messages))

\* AuthManager.register: n the next fresh id, r the random digits of the two
\* IBANs, ok[k] whether the k-th storage write succeeds (users, the two
\* accounts, 'currentUser', users again for lastLogin)
register(stored, accs, sess, userData, n, r, now, ok) ==
    LET error == FirstError(<<validateRegistrationData(userData),
                              checkUserExists(stored, userData.email),
                              validatePasswordStrength(userData.password),
                              confirmPasswordMatch(userData.password,
                                                   userData.confirmPassword)>>)
        newUser == createUserAccount(userData, generateUserId(n))
        users1 == createUser(stored, newUser, ok[1])
        accs1 == setupUserEnvironment(accs, newUser.id, n + 1, r, ok[2], ok[3])
        loginResult == login(users1, sess, userData.email, userData.password,
                             now, ok[4], ok[5])
    IN  IF error # ""
        THEN [users |-> stored, accounts |-> accs, session |-> sess,
              success |-> FALSE, message |-> error, user |-> Null]
        ELSE [users |-> loginResult.users, accounts |-> accs1,
              session |-> loginResult.session,
              success |-> TRUE, message |-> "", user |-> Some(newUser)]

(***************************************************************************)
(* The AdminManager: it loads the three collections once, when the admin   *)
(* page opens, and from then on edits and writes back its own copies.      *)
(* The writes of the admin page succeed.                                   *)
(***************************************************************************)
\* AuthManager.isAdmin
isAdmin(sess) == sess.currentUser # Null /\ sess.currentUser[1].role = "admin"

\* AuthManager.sanitizeUserData: the user without its password
sanitizeUserData(user) ==
    [id |-> user.id, email |-> user.email, role |-> user.role,
     isActive |-> user.isActive, lastLogin |-> user.lastLogin]

\* AdminManager.init and loadAdminData
adminInit(adm, sess, stored, accs, txns) ==
    IF ~isAdmin(sess) THEN adm
    ELSE [currentAdmin |-> Some(sanitizeUserData(sess.currentUser[1])),
          users |-> stored, accounts |-> accs, transactions |-> txns]

\* AdminManager.saveUserChanges: the AdminManager afterwards and whether it
\* wrote its users to storage
saveUserChanges(adm, userId, email, role, status) ==
    LET existingUser == \E k \in 1..Len(adm.users) :
                            adm.users[k].email = email /\ adm.users[k].id # userId
        userIndex == FirstIndex({k \in 1..Len(adm.users) : adm.users[k].id = userId})
    IN  IF existingUser \/ userIndex = 0
        THEN [admin |-> adm, saved |-> FALSE]
        ELSE [admin |-> [adm EXCEPT !.users[userIndex].email = email,
                                    !.users[userIndex].role = role,
                                    !.users[userIndex].isActive = (status = "active")],
              saved |-> TRUE]

\* AdminManager.performUserDeletion: the AdminManager afterwards
performUserDeletion(adm, userId) ==
    LET accounts1 == SelectSeq(adm.accounts, LAMBDA account : account.userId # userId)
        userAccountIds == {accounts1[k].id : k \in {j \in 1..Len(accounts1) :
                                                        accounts1[j].userId = userId}}
    IN  [adm EXCEPT !.accounts = accounts1,
                    !.transactions = SelectSeq(adm.transactions,
                                         LAMBDA txn : txn.accountId \notin userAccountIds),
                    !.users = SelectSeq(adm.users, LAMBDA user : user.id # userId)]

\* a deleteUser that does not compare the row with the logged-in admin
deleteUserAnyRow(adm, userId, confirmed) ==
    LET found == \E k \in 1..Len(adm.users) : adm.users[k].id = userId
    IN  IF ~found \/ ~confirmed
        THEN [admin |-> adm, saved |-> FALSE]
        ELSE [admin |-> performUserDeletion(adm, userId), saved |-> TRUE]

\* AdminManager.deleteUser: the AdminManager afterwards and whether it wrote
\* its collections to storage; confirmed is the answer to the confirm dialog
deleteUser(adm, userId, confirmed) ==
    LET found == \E k \in 1..Len(adm.users) : adm.users[k].id = userId
    IN  IF ~found \/ userId = adm.currentAdmin[1].id \/ ~confirmed
        THEN [admin |-> adm, saved |-> FALSE]
        ELSE [admin |-> performUserDeletion(adm, userId), saved |-> TRUE]

(***************************************************************************)
(* The state machine of registration and of the admin page, over a store   *)
(* that holds an admin and one registered user who has made a transfer.    *)
(***************************************************************************)
GoodPassword == <<"P", "a", "s", "s", "1", "2">>

WeakPassword == <<"a", "b", "c", "d", "e", "f">>

AdminEmail == <<"r", "@", "b", ".", "c">>

UserEmail == <<"a", "@", "b", ".", "c">>

UserEmailUpper == <<"A", "@", "b", ".", "c">>

NewEmail == <<"n", "@", "b", ".", "c">>

NewEmailUpper == <<"N", "@", "b", ".", "c">>

\* the registration form
Form(email, password, confirmPassword, firstName) ==
    [email |-> email, password |-> password, confirmPassword |-> confirmPassword,
     firstName |-> firstName, lastName |-> <<"D">>]

\* forms submitted: a new address, a new address typed with a capital, the
\* address of a registered user in capitals, that address itself, no address,
\* a weak password, a wrong confirmation, a blank first name
RegistrationInputs ==
    {Form(NewEmail, GoodPassword, GoodPassword, <<"J">>),
     Form(NewEmailUpper, GoodPassword, GoodPassword, <<"J">>),
     Form(UserEmailUpper, GoodPassword, GoodPassword, <<"J">>),
     Form(UserEmail, GoodPassword, GoodPassword, <<"J">>),
     Form(<<"a", "b">>, GoodPassword, GoodPassword, <<"J">>),
     Form(NewEmail, WeakPassword, WeakPassword, <<"J">>),
     Form(NewEmail, GoodPassword, WeakPassword, <<"J">>),
     Form(NewEmail, GoodPassword, GoodPassword, <<" ">>)}

\* the random digits of the two IBANs of a registration
RegisterDraws ==
    <<<<"5">>, <<"1", "2", "3", "4", "5", "6", "7", "8", "9", "0", "1", "2">>>>

\* outcomes of the five StorageManager.set calls of one registration
RegisterAllOk == [k \in 1..5 |-> TRUE]

RegisterWrites(userData) ==
    IF register(users, accounts, session, userData, nextId, RegisterDraws,
                ops + 1, RegisterAllOk).success
    THEN {f \in [1..5 -> BOOLEAN] : Cardinality({k \in 1..5 : ~f[k]}) <= MaxFailures}
    ELSE {RegisterAllOk}

AdminUser == User(generateUserId(0), AdminEmail, hashPassword(GoodPassword), "admin")

\* the opening store: the admin; a user registered with UserEmail, who then
\* moved 1 from the checking to the savings account; the admin logged in
SeedRegistration ==
    register(<<AdminUser>>, <<>>, NoSession,
             Form(UserEmail, GoodPassword, GoodPassword, <<"J">>),
             1, RegisterDraws, 1, RegisterAllOk)

SeedTransfer ==
    processTransfer(SeedRegistration.accounts, <<>>, generateId(2),
                    Str(generateId(3)), 1, AllOk)

SeedLogin ==
    login(SeedRegistration.users, SeedRegistration.session, AdminEmail,
          GoodPassword, 1, TRUE, TRUE)

InitAuth ==
    /\ accounts = SeedTransfer.accounts
    /\ transactions = SeedTransfer.transactions
    /\ nextId = 4
    /\ acct = Null
    /\ ops = 0
    /\ last = NoCall
    /\ tabs = <<>>
    /\ users = SeedLogin.users
    /\ session = SeedLogin.session
    /\ admin = adminInit(NoAdmin, SeedLogin.session, SeedLogin.users,
                         SeedTransfer.accounts, SeedTransfer.transactions)
    /\ ret = NoResult

\* await authManager.register(userData), on the registration page
Register(userData) ==
    /\ ops < MaxCalls
    /\ (nextId - 1) \div 3 < MaxUsers
    /\ \E ok \in RegisterWrites(userData) :
        LET t == register(users, accounts, session, userData, nextId,
                          RegisterDraws, ops + 1, ok)
        IN  /\ users' = t.users
            /\ accounts' = t.accounts
            /\ session' = t.session
            /\ nextId' = IF t.success THEN nextId + 3 ELSE nextId
            /\ ret' = [NoResult EXCEPT !.op = "register",
                                       !.args = <<userData>>,
                                       !.success = t.success,
                                       !.message = t.message,
                                       !.value = t.user]
            /\ last' = [NoCall EXCEPT !.op = "register",
                                      !.writes = ok,
                                      !.accountsBefore = accounts,
                                      !.transactionsBefore = transactions,
                                      !.acctBefore = acct]
    /\ ops' = ops + 1
    /\ UNCHANGED <<transactions, acct, tabs, admin>>

\* the admin page is opened again: new AdminManager()
AdminInit ==
    /\ ops < MaxCalls
    /\ admin' = adminInit(admin, session, users, accounts, transactions)
    /\ ret' = [NoResult EXCEPT !.op = "adminInit", !.success = isAdmin(session)]
    /\ last' = [NoCall EXCEPT !.op = "adminInit",
                              !.accountsBefore = accounts,
                              !.transactionsBefore = transactions,
                              !.acctBefore = acct]
    /\ ops' = ops + 1
    /\ UNCHANGED <<accounts, transactions, nextId, acct, tabs, users, session>>

\* the ids a row of the users table can carry, and one of no user
AdminUserIds == {generateUserId(n) : n \in {0, 1, 4, 9}}

\* what the edit form can hold as email for the user: the address it was
\* filled with, the address of the registered user in capitals, the admin's
EditEmails(userId) ==
    {admin.users[k].email : k \in {j \in 1..Len(admin.users) : admin.users[j].id = userId}}
        \cup {UserEmailUpper, AdminEmail}

\* the Save button of the edit form: adminManager.saveUserChanges(userId)
SaveUserChanges(userId, email, role, status) ==
    /\ ops < MaxCalls
    /\ admin.currentAdmin # Null
    /\ LET t == saveUserChanges(admin, userId, email, role, status)
       IN  /\ admin' = t.admin
           /\ users' = IF t.saved THEN StorageSet(users, t.admin.users, TRUE) ELSE users
           /\ ret' = [NoResult EXCEPT !.op = "saveUserChanges",
                                      !.args = <<userId, email, role, status>>,
                                      !.success = t.saved]
    /\ last' = [NoCall EXCEPT !.op = "saveUserChanges",
                              !.accountsBefore = accounts,
                              !.transactionsBefore = transactions,
                              !.acctBefore = acct]
    /\ ops' = ops + 1
    /\ UNCHANGED <<accounts, transactions, nextId, acct, tabs, session>>

\* the Delete button of a row: adminManager.deleteUser(userId)
DeleteUser(userId, confirmed) ==
    /\ ops < MaxCalls
    /\ admin.currentAdmin # Null
    /\ LET t == deleteUser(admin, userId, confirmed)
       IN  /\ admin' = t.admin
           /\ users' = IF t.saved THEN StorageSet(users, t.admin.users, TRUE) ELSE users
           /\ accounts' = IF t.saved THEN StorageSet(accounts, t.admin.accounts, TRUE)
                          ELSE accounts
           /\ transactions' = IF t.saved
                              THEN StorageSet(transactions, t.admin.transactions, TRUE)
                              ELSE transactions
           /\ ret' = [NoResult EXCEPT !.op = "deleteUser",
                                      !.args = <<userId, confirmed>>,
                                      !.success = t.saved]
    /\ last' = [NoCall EXCEPT !.op = "deleteUser",
                              !.accountsBefore = accounts,
                              !.transactionsBefore = transactions,
                              !.acctBefore = acct]
    /\ ops' = ops + 1
    /\ UNCHANGED <<nextId, acct, tabs, session>>

NextAuth ==
    \/ \E userData \in RegistrationInputs : Register(userData)
    \/ AdminInit
    \/ \E userId \in AdminUserIds, role \in {"user", "admin"},
          status \in {"active", "inactive"} :
            \E email \in EditEmails(userId) :
                SaveUserChanges(userId, email, role, status)
    \/ \E userId \in AdminUserIds, confirmed \in BOOLEAN : DeleteUser(userId, confirmed)

SpecAuth == InitAuth /\ [][NextAuth]_vars

(***************************************************************************)
(* The session: over the store of the admin page, users log in and out,    *)
(* change their password and reload the page, while the admin edits and    *)
(* deletes users.  The storage writes of these calls succeed.              *)
(***************************************************************************)
OtherPassword == <<"W", "o", "r", "d", "3", "4">>

\* AuthManager.isAuthenticated
isAuthenticated(sess) == sess.currentUser # Null

\* AuthManager.init: the session is restored from the 'currentUser' key and
\* the login time of its user is updated; the stored users and the session
authInit(stored, sess, now) ==
    [users |-> IF sess.stored = Null THEN stored
               ELSE updateUserLoginTime(stored, sess.stored[1].id, now, TRUE),
     session |-> [sess EXCEPT !.currentUser = sess.stored]]

\* AuthManager.logout: the session afterwards
logout(sess) == [currentUser |-> Null, stored |-> StorageSet(sess.stored, Null, TRUE)]

\* DataManager.updateUser(userId, {password}): the stored users afterwards
updateUserPassword(stored, userId, password) ==
    LET i == FirstIndex({k \in 1..Len(stored) : stored[k].id = userId})
    IN  IF i = 0 THEN stored
        ELSE StorageSet(stored, [stored EXCEPT ![i].password = password], TRUE)

\* AuthManager.changePassword: the stored users afterwards and the result
changePassword(stored, sess, currentPassword, newPassword) ==
    IF ~isAuthenticated(sess)
    THEN [users |-> stored, success |-> FALSE, message |-> "Authentication required"]
    ELSE IF hashPassword(currentPassword) # sess.currentUser[1].password
    THEN [users |-> stored, success |-> FALSE, message |-> "Invalid email or password"]
    ELSE IF validatePasswordStrength(newPassword) # ""
    THEN [users |-> stored, success |-> FALSE,
          message |-> validatePasswordStrength(newPassword)]
    ELSE [users |-> updateUserPassword(stored, sess.currentUser[1].id,
                                       hashPassword(newPassword)),
          success |-> TRUE, message |-> ""]

\* what the calls of the session leave in the history of the transfer engine
SessionCall(op) ==
    [NoCall EXCEPT !.op = op,
                   !.accountsBefore = accounts,
                   !.transactionsBefore = transactions,
                   !.acctBefore = acct]

\* await authManager.login(email, password), on the login page
Login(email, password) ==
    /\ ops < MaxCalls
    /\ LET t == login(users, session, email, password, ops + 1, TRUE, TRUE)
       IN  /\ users' = t.users
           /\ session' = t.session
           /\ ret' = [NoResult EXCEPT !.op = "login",
                                      !.args = <<email, password>>,
                                      !.success = t.success,
                                      !.message = t.message]
    /\ last' = SessionCall("login")
    /\ ops' = ops + 1
    /\ UNCHANGED <<accounts, transactions, nextId, acct, tabs, admin>>

\* await authManager.logout()
Logout ==
    /\ ops < MaxCalls
    /\ session' = logout(session)
    /\ ret' = [NoResult EXCEPT !.op = "logout", !.success = TRUE]
    /\ last' = SessionCall("logout")
    /\ ops' = ops + 1
    /\ UNCHANGED <<accounts, transactions, nextId, acct, tabs, users, admin>>

\* a page is loaded: new AuthManager()
AuthInit ==
    /\ ops < MaxCalls
    /\ LET t == authInit(users, session, ops + 1)
       IN  /\ users' = t.users
           /\ session' = t.session
    /\ ret' = [NoResult EXCEPT !.op = "init", !.success = session.stored # Null]
    /\ last' = SessionCall("init")
    /\ ops' = ops + 1
    /\ UNCHANGED <<accounts, transactions, nextId, acct, tabs, admin>>

\* await authManager.changePassword(currentPassword, newPassword)
ChangePassword(currentPassword, newPassword) ==
    /\ ops < MaxCalls
    /\ LET t == changePassword(users, session, currentPassword, newPassword)
       IN  /\ users' = t.users
           /\ ret' = [NoResult EXCEPT !.op = "changePassword",
                                      !.args = <<currentPassword, newPassword>>,
                                      !.success = t.success,
                                      !.message = t.message]
    /\ last' = SessionCall("changePassword")
    /\ ops' = ops + 1
    /\ UNCHANGED <<accounts, transactions, nextId, acct, tabs, session, admin>>

\* what is typed into the password fields: the password both seeded users
\* have, another strong one, a weak one, nothing
PasswordInputs == {GoodPassword, OtherPassword, WeakPassword, <<>>}

NextSession ==
    \/ \E email \in {AdminEmail, UserEmail}, password \in PasswordInputs :
            Login(email, password)
    \/ Logout
    \/ AuthInit
    \/ \E currentPassword \in PasswordInputs \ {<<>>},
          newPassword \in PasswordInputs \ {<<>>} :
            ChangePassword(currentPassword, newPassword)
    \/ \E k \in 1..Len(admin.users), status \in {"active", "inactive"} :
            SaveUserChanges(admin.users[k].id, admin.users[k].email,
                            admin.users[k].role, status)
    \/ \E k \in 1..Len(admin.users) : DeleteUser(admin.users[k].id, TRUE)

SpecSession == InitAuth /\ [][NextSession]_vars

(***************************************************************************)
(* The accounts of a user: accounts of two owners are created, and the     *)
(* dashboard asks for the accounts of a user and for their total.          *)
(***************************************************************************)
Owners == {"user_1", "user_2"}

\* a query that does not look at isActive
getAccountsByUserIdAll(accs, userId) ==
    SelectSeq(accs, LAMBDA account : account.userId = userId)

\* DataManager.getAccountsByUserId
getAccountsByUserId(accs, userId) ==
    SelectSeq(accs, LAMBDA account : account.userId = userId /\ account.isActive)

\* accounts.reduce((total, account) => total + account.balance, 0)
RECURSIVE ReduceBalance(_, _)
ReduceBalance(list, total) ==
    IF list = <<>> THEN total
    ELSE ReduceBalance(Tail(list), total + Head(list).balance)

\* DataManager.getTotalBalance
getTotalBalance(accs, userId) == ReduceBalance(getAccountsByUserId(accs, userId), 0)

\* const accounts = dataManager.getAccountsByUserId(userId)
GetAccountsByUserId(userId) ==
    /\ ops < MaxOps
    /\ ret' = [NoResult EXCEPT !.op = "getAccountsByUserId",
                               !.args = <<userId>>,
                               !.success = TRUE,
                               !.value = getAccountsByUserId(accounts, userId)]
    /\ last' = [NoCall EXCEPT !.op = "getAccountsByUserId",
                              !.accountsBefore = accounts,
                              !.transactionsBefore = transactions,
                              !.acctBefore = acct]
    /\ ops' = ops + 1
    /\ UNCHANGED <<accounts, transactions, nextId, acct, tabs, users, session, admin>>

\* const total = dataManager.getTotalBalance(userId)
GetTotalBalance(userId) ==
    /\ ops < MaxOps
    /\ ret' = [NoResult EXCEPT !.op = "getTotalBalance",
                               !.args = <<userId>>,
                               !.success = TRUE,
                               !.value = getTotalBalance(accounts, userId)]
    /\ last' = [NoCall EXCEPT !.op = "getTotalBalance",
                              !.accountsBefore = accounts,
                              !.transactionsBefore = transactions,
                              !.acctBefore = acct]
    /\ ops' = ops + 1
    /\ UNCHANGED <<accounts, transactions, nextId, acct, tabs, users, session, admin>>

NextOwner ==
    \/ \E userId \in Owners, balance \in {1, StartBalance}, isActive \in BOOLEAN :
            CreateAccount(userId, <<"5">>, balance, isActive, TRUE)
    \/ \E userId \in Owners : GetAccountsByUserId(userId)
    \/ \E userId \in Owners : GetTotalBalance(userId)

SpecOwner == Init /\ [][NextOwner]_vars

(***************************************************************************)
(* One page in which every storage write succeeds: accounts are created    *)
(* and transfers are made, one call after the other.                       *)
(***************************************************************************)
\* a processTransfer none of whose StorageManager.set calls returns false
ProcessTransferStored(fromAccountId, toAccountIdentifier, amount) ==
    /\ ProcessTransfer(fromAccountId, toAccountIdentifier, amount)
    /\ \A k \in DOMAIN last'.writes : last'.writes[k]

NextStored ==
    \/ \E userId \in Users, r \in RandomDigits, isActive \in BOOLEAN :
            CreateAccount(userId, r, StartBalance, isActive, TRUE)
    \/ \E fromAccountId \in SourceInputs, toAccountIdentifier \in DestinationInputs,
          amount \in Amounts :
            ProcessTransferStored(fromAccountId, toAccountIdentifier, amount)

SpecStored == Init /\ [][NextStored]_vars

(***************************************************************************)
(* The transfer form of the dashboard: active accounts of two owners are   *)
(* created and the form is submitted.  The storage writes succeed.         *)
(***************************************************************************)
\* the number the leading digits of s denote
RECURSIVE DigitsValue(_, _)
DigitsValue(s, n) ==
    IF s = <<>> \/ ~IsDigit(Head(s)) THEN n
    ELSE DigitsValue(Tail(s), 10 * n + IndexIn(DigitChars, Head(s)) - 1)

\* parseFloat on whole amounts: NaN (Null) unless s, after leading blanks and
\* an optional sign, starts with a digit
ParseFloat(s) ==
    LET t == Trim(s)
        negative == t # <<>> /\ Head(t) = "-"
        digits == IF negative THEN Tail(t) ELSE t
    IN  IF digits = <<>> \/ ~IsDigit(Head(digits)) THEN Null
        ELSE Some((IF negative THEN -1 ELSE 1) * DigitsValue(digits, 0))

External == <<"e", "x", "t", "e", "r", "n", "a", "l">>

\* the form did not reach the transfer engine; showError(message)
FormError(accs, txns, message) ==
    [accounts |-> accs, transactions |-> txns, called |-> FALSE,
     success |-> FALSE, error |-> message]

\* the form reached the transfer engine: redirect on success, showError if not
FormResult(transferResult) ==
    [accounts |-> transferResult.accounts, transactions |-> transferResult.transactions,
     called |-> TRUE, success |-> transferResult.success,
     error |-> transferResult.error]

\* DashboardManager.processTransfer(formData)
dashboardProcessTransfer(accs, txns, formData) ==
    LET fromAccountId == formData.fromAccount
        toAccountValue == formData.toAccount
        amount == ParseFloat(formData.amount)
        recipientIBAN == formData.ibanAccount
    IN  IF fromAccountId = <<>> \/ toAccountValue = <<>> \/ amount = Null
        THEN FormError(accs, txns, "Please fill all required fields correctly")
        ELSE IF amount[1] <= 0
        THEN FormError(accs, txns, "Please fill all required fields correctly")
        ELSE IF toAccountValue # External
        THEN FormResult(processTransfer(accs, txns, fromAccountId,
                                        Str(toAccountValue), amount[1], AllOk))
        ELSE IF recipientIBAN = <<>>
        THEN FormError(accs, txns, "Please enter recipient IBAN")
        ELSE IF ~isValidIBAN(Str(recipientIBAN))
        THEN FormError(accs, txns, "Invalid IBAN format")
        ELSE FormResult(processTransfer(accs, txns, fromAccountId,
                                        Str(recipientIBAN), amount[1], AllOk))

\* the fields of the form
TransferForm(fromAccount, toAccount, amount, ibanAccount) ==
    [fromAccount |-> fromAccount, toAccount |-> toAccount, amount |-> amount,
     ibanAccount |-> ibanAccount]

\* what the form can hold: the source is the first account or nothing; the
\* destination the second account, 'external' or nothing; the amount nothing,
\* 0, 1 or more than any balance; the IBAN nothing, a generated one or the
\* README's
FormSources == {<<>>, generateId(1)}

FormDestinations == {<<>>, generateId(2), External}

FormAmounts == {<<>>, <<"0">>, <<"1">>, <<"9", "9">>}

FormIbans == {<<>>, DocumentedIBAN} \cup {generateIBAN(r) : r \in RandomDigits}

\* the transfer form is submitted
SubmitTransferForm(formData) ==
    /\ ops < MaxOps
    /\ LET t == dashboardProcessTransfer(accounts, transactions, formData)
       IN  /\ accounts' = t.accounts
           /\ transactions' = t.transactions
           /\ ret' = [NoResult EXCEPT !.op = "dashboardTransfer",
                                      !.args = <<formData>>,
                                      !.success = t.success,
                                      !.message = t.error,
                                      !.value = t.called]
    /\ last' = SessionCall("dashboardTransfer")
    /\ ops' = ops + 1
    /\ UNCHANGED <<nextId, acct, tabs, users, session, admin>>

NextDashboard ==
    \/ \E userId \in Owners, r \in RandomDigits :
            CreateAccount(userId, r, StartBalance, TRUE, TRUE)
    \/ \E fromAccount \in FormSources, toAccount \in FormDestinations,
          amount \in FormAmounts, ibanAccount \in FormIbans :
            SubmitTransferForm(TransferForm(fromAccount, toAccount, amount, ibanAccount))

SpecDashboard == Init /\ [][NextDashboard]_vars

(***************************************************************************)
(* Vocabulary of the properties.  X is the source account of the most      *)
(* recent processTransfer call and Y the account its destination           *)
(* identifier denotes, both looked up in the store as it was before the    *)
(* call.                                                                   *)
(***************************************************************************)
IsTransfer == last.op = "processTransfer"

\* the accounts of a collection that carry the id
WithId(accs, id) == {i \in 1..Len(accs) : accs[i].id = id}

HasAccount(accs, id) == WithId(accs, id) # {}

StoredBalance(accs, id) == accs[CHOOSE i \in WithId(accs, id) : TRUE].balance

\* the stored account a destination identifier denotes: the one with that id
\* when the identifier starts with 'acc_', otherwise the first whose IBAN is
\* the identifier up to whitespace
Denotes(a, identifier) ==
    IF StartsWith(identifier.chars, AccPrefix)
    THEN a.id = identifier.chars
    ELSE StripWhitespace(a.iban) = StripWhitespace(identifier.chars)

Candidates(accs, identifier) ==
    {i \in 1..Len(accs) : identifier.isString /\ Denotes(accs[i], identifier)}

HasRecipient == Candidates(last.accountsBefore, last.to) # {}

Y ==
    LET c == Candidates(last.accountsBefore, last.to)
    IN  last.accountsBefore[CHOOSE i \in c : \A j \in c : i <= j]

HasSender == HasAccount(last.accountsBefore, last.from)

X ==
    last.accountsBefore[CHOOSE i \in WithId(last.accountsBefore, last.from) : TRUE]

StoreUnchanged ==
    /\ accounts = last.accountsBefore
    /\ transactions = last.transactionsBefore

Balances(accs) == {accs[i].balance : i \in 1..Len(accs)}

(***************************************************************************)
(* Properties of the transfer engine.                                      *)
(***************************************************************************)

\* C1 Conservation: after every processTransfer that reports success, the
\* stored balance of X is its balance before minus the amount and the stored
\* balance of Y is its balance before plus the amount.
C1_Conservation ==
    (IsTransfer /\ last.success) =>
        /\ StoredBalance(accounts, X.id) = X.balance - last.amount
        /\ StoredBalance(accounts, Y.id) = Y.balance + last.amount
        /\ StoredBalance(accounts, X.id) + StoredBalance(accounts, Y.id)
               = X.balance + Y.balance

\* C2 Paired ledger: every processTransfer that reports success appends
\* exactly two records, a 'transfer' of the amount on X and then a 'deposit'
\* of the amount on Y, both 'completed', and no other record.
C2_PairedLedger ==
    (IsTransfer /\ last.success) =>
        LET n == Len(last.transactionsBefore)
        IN  /\ Len(transactions) = n + 2
            /\ SubSeq(transactions, 1, n) = last.transactionsBefore
            /\ transactions[n + 1].accountId = X.id
            /\ transactions[n + 1].type = "transfer"
            /\ transactions[n + 1].amount = last.amount
            /\ transactions[n + 1].status = "completed"
            /\ transactions[n + 2].accountId = Y.id
            /\ transactions[n + 2].type = "deposit"
            /\ transactions[n + 2].amount = last.amount
            /\ transactions[n + 2].status = "completed"

\* C3 Rejection: a processTransfer that reports failure leaves the stored
\* accounts and the stored transactions exactly as they were.
C3_RejectionLeavesStore ==
    (IsTransfer /\ ~last.success) => StoreUnchanged

\* a transfer between two distinct active accounts was rejected by the last
\* validation, that of the amount
C3_Witness ==
    /\ IsTransfer
    /\ ~last.success
    /\ HasSender
    /\ HasRecipient
    /\ X.id # Y.id
    /\ last.error = "Withdrawal amount must be positive"

\* C4 No negative balance: every stored balance and the balance of the
\* instance in memory stay >= 0, and a withdraw or a transfer of more than
\* the available balance fails with 'Insufficient funds' and changes nothing.
C4_NoNegativeBalance ==
    /\ \A b \in Balances(accounts) : b >= 0
    /\ acct # Null => acct[1].balance >= 0
    /\ (last.op = "withdraw" /\ last.amount > last.acctBefore[1].balance) =>
           /\ last.threw
           /\ last.error = "Insufficient funds"
           /\ acct = last.acctBefore
    /\ (IsTransfer /\ HasSender /\ last.amount > X.balance) =>
           /\ ~last.success
           /\ last.error = "Insufficient funds"
           /\ StoreUnchanged

\* a transfer of more than the source holds was attempted towards another,
\* active account
C4_Witness ==
    /\ IsTransfer
    /\ HasSender
    /\ HasRecipient
    /\ X.id # Y.id
    /\ Y.isActive
    /\ last.amount > X.balance
    /\ last.error = "Insufficient funds"

\* C1 restricted to the calls whose four storage writes all succeed
C1_ConservationWhenPersisted ==
    (last.writes = AllOk) => C1_Conservation

\* C2 restricted to the calls whose four storage writes all succeed
C2_PairedLedgerWhenPersisted ==
    (last.writes = AllOk) => C2_PairedLedger

SameAccountTransfer == IsTransfer /\ HasSender /\ HasRecipient /\ Y.id = X.id

\* C5 as claimed: a transfer whose destination resolves to the source account
\* itself fails with 'Cannot transfer to the same account' whether or not the
\* balance covers the amount.
C5_SameAccountAlways ==
    SameAccountTransfer =>
        /\ ~last.success
        /\ last.error = "Cannot transfer to the same account"

\* C5 amended: a transfer whose destination resolves to the source account
\* itself always fails and changes nothing; the error is 'Insufficient funds'
\* when the balance does not cover the amount, else 'Recipient account is
\* inactive' when the account is inactive, else 'Cannot transfer to the same
\* account'.
C5_SameAccountRejected ==
    SameAccountTransfer =>
        /\ ~last.success
        /\ StoreUnchanged
        /\ last.error =
               IF X.balance < last.amount THEN "Insufficient funds"
               ELSE IF ~X.isActive THEN "Recipient account is inactive"
               ELSE "Cannot transfer to the same account"

\* a transfer addressed to its own source, by the IBAN of the source, with
\* the balance covering the amount
C5_Witness ==
    /\ SameAccountTransfer
    /\ ~StartsWith(last.to.chars, AccPrefix)
    /\ X.balance >= last.amount
    /\ last.amount > 0
    /\ last.error = "Cannot transfer to the same account"

ValidationErrors ==
    {"Sender account not found", "Insufficient funds", "Recipient account not found",
     "Recipient account is inactive", "Cannot transfer to the same account"}

\* C6 First failure wins: the error reported is that of the first check that
\* fails in the order source exists, balance covers the amount, destination
\* resolves, destination is active, source and destination differ; a call
\* that passes the five checks reports none of their errors.
C6_FirstFailureWins ==
    (IsTransfer /\ last.to.isString) =>
        IF ~HasSender
        THEN ~last.success /\ last.error = "Sender account not found"
        ELSE IF X.balance < last.amount
        THEN ~last.success /\ last.error = "Insufficient funds"
        ELSE IF ~HasRecipient
        THEN ~last.success /\ last.error = "Recipient account not found"
        ELSE IF ~Y.isActive
        THEN ~last.success /\ last.error = "Recipient account is inactive"
        ELSE IF X.id = Y.id
        THEN ~last.success /\ last.error = "Cannot transfer to the same account"
        ELSE last.error \notin ValidationErrors

\* two checks would fail, the balance and the activity of a destination
\* given by id, and the earlier one is reported
C6_Witness ==
    /\ IsTransfer
    /\ HasSender
    /\ HasRecipient
    /\ StartsWith(last.to.chars, AccPrefix)
    /\ X.balance < last.amount
    /\ ~Y.isActive
    /\ last.error = "Insufficient funds"

\* C7 Never throws: the promise of processTransfer is never rejected; every
\* failure is a value {success: false, error: <message>}, also when the
\* destination identifier is no string.
C7_NeverThrows ==
    IsTransfer =>
        /\ ~last.rejected
        /\ ~last.success => last.error # ""
        /\ ~last.to.isString => ~last.success

\* a destination that is no string reached the lookup: an internal fault
C7_Witness ==
    /\ IsTransfer
    /\ ~last.to.isString
    /\ HasSender
    /\ X.balance >= last.amount
    /\ ~last.success
    /\ last.error = "toAccountIdentifier.startsWith is not a function"

\* C8 Positive amounts only: deposit and withdraw with an amount <= 0 throw
\* and leave the balance alone; processTransfer with an amount <= 0 never
\* succeeds and leaves the store alone.
C8_PositiveAmountsOnly ==
    /\ (last.op \in {"deposit", "withdraw"} /\ last.amount <= 0) =>
           /\ last.threw
           /\ acct = last.acctBefore
    /\ (IsTransfer /\ last.amount <= 0) =>
           /\ ~last.success
           /\ StoreUnchanged

\* a transfer of a non-positive amount between two distinct accounts, the
\* destination active: every check before the debit passes
C8_Witness ==
    /\ IsTransfer
    /\ last.amount <= 0
    /\ HasSender
    /\ HasRecipient
    /\ Y.isActive
    /\ X.id # Y.id
    /\ ~last.success

\* the write of the source balance succeeded and that of the destination
\* balance failed
SecondWriteFailed ==
    /\ IsTransfer
    /\ Len(last.writes) = 4
    /\ last.writes[1]
    /\ ~last.writes[2]

\* C9 No rollback: when the write of the destination balance fails after the
\* write of the source balance succeeded, the store holds the source debited
\* by the amount and the destination not credited.
C9_NoRollback ==
    SecondWriteFailed =>
        /\ StoredBalance(accounts, X.id) = X.balance - last.amount
        /\ StoredBalance(accounts, Y.id) = Y.balance

\* the store after such a transfer: money is gone
C9_Witness ==
    /\ SecondWriteFailed
    /\ last.amount > 0
    /\ StoredBalance(accounts, X.id) + StoredBalance(accounts, Y.id)
           < X.balance + Y.balance

(***************************************************************************)
(* Properties of two pages sharing the store.                              *)
(***************************************************************************)
BothSucceeded == \A t \in Tabs : tabs[t].pc = "done" /\ tabs[t].success

TotalBalance(accs) ==
    LET RECURSIVE Sum(_)
        Sum(n) == IF n = 0 THEN 0 ELSE accs[n].balance + Sum(n - 1)
    IN  Sum(Len(accs))

\* the stored accounts after the page t runs its transfer alone on accs
AfterAlone(accs, t) ==
    processTransfer(accs, <<>>, tabs[t].from, tabs[t].to, tabs[t].amount, AllOk).accounts

\* the stored accounts after the two transfers run one after the other
SerialOutcomes ==
    {AfterAlone(AfterAlone(SeedAccounts, 1), 2),
     AfterAlone(AfterAlone(SeedAccounts, 2), 1)}

\* both pages debit the same account and both validated against the same
\* balance of it
SameBalanceRead ==
    /\ BothSucceeded
    /\ tabs[1].from = tabs[2].from
    /\ tabs[1].readBalance = tabs[2].readBalance

\* C10 Lost update: when two pages each complete a transfer from the same
\* source after reading the same balance of it, the store holds that balance
\* minus the amount of one page only: the other debit is overwritten, though
\* both transfers report success.
C10_LostUpdate ==
    SameBalanceRead =>
        StoredBalance(accounts, tabs[1].from)
            \in {tabs[1].readBalance - tabs[1].amount,
                 tabs[2].readBalance - tabs[2].amount}

\* both transfers reported success and the stored accounts are those of
\* neither serial order: the total of the balances has changed
C10_Witness ==
    /\ SameBalanceRead
    /\ accounts \notin SerialOutcomes
    /\ TotalBalance(accounts) # TotalBalance(SeedAccounts)

(***************************************************************************)
(* Properties of two calls made in one page.                               *)
(***************************************************************************)
BothReturned == \A t \in Tabs : tabs[t].pc = "done"

\* the store and the two results are those of the call i run alone on the
\* opening store, then the call j run alone on what i left
RanInOrder(i, j) ==
    LET first == processTransfer(SeedAccounts, <<>>, tabs[i].from, tabs[i].to,
                                 tabs[i].amount, AllOk)
        second == processTransfer(first.accounts, first.transactions, tabs[j].from,
                                  tabs[j].to, tabs[j].amount, AllOk)
    IN  /\ accounts = second.accounts
        /\ transactions = second.transactions
        /\ tabs[i].success = first.success /\ tabs[i].error = first.error
        /\ tabs[j].success = second.success /\ tabs[j].error = second.error
        /\ HasAccount(first.accounts, tabs[j].from)
               => tabs[j].readBalance = StoredBalance(first.accounts, tabs[j].from)

\* C11 No suspension inside a transfer: no call of processTransfer is ever
\* parked between its funds check and its writes, and when two calls made in
\* the same page have returned, the store and both results are those of one
\* call run to its end before the other starts, the later call having
\* checked its funds against the balances the earlier one wrote.
C11_BackToBackSerial ==
    /\ \A t \in Tabs : tabs[t].pc \in {"idle", "done"}
    /\ BothReturned => RanInOrder(1, 2) \/ RanInOrder(2, 1)

\* the first call spent what the second needed: the second would have passed
\* on the opening balance and is refused on the balance the first wrote
C11_Witness ==
    /\ BothReturned
    /\ tabs[1].from = tabs[2].from
    /\ tabs[1].success
    /\ tabs[2].amount <= StartBalance
    /\ ~tabs[2].success /\ tabs[2].error = "Insufficient funds"
    /\ tabs[2].readBalance = StartBalance - tabs[1].amount

(***************************************************************************)
(* Properties of IBANs.                                                    *)
(***************************************************************************)
\* C14 Unique IBANs: no two stored accounts have the same IBAN once
\* whitespace is removed, so a lookup by IBAN has at most one candidate.
C14_UniqueIbans ==
    \A i, j \in 1..Len(accounts) :
        i # j => StripWhitespace(accounts[i].iban) # StripWhitespace(accounts[j].iban)

\* C15 Generated IBANs are valid: the IBAN of every account created by
\* createAccount has the documented form with four groups of four digits
\* and is accepted by Account.isValidIBAN.
C15_GeneratedIbanValid ==
    \A i \in 1..Len(accounts) : isValidIBAN(Str(accounts[i].iban))

\* C16 Invalid IBANs are refused: a processTransfer whose destination is a
\* string that is no internal account id and fails Account.isValidIBAN does
\* not end in success.
C16_InvalidIbanRefused ==
    (/\ IsTransfer
     /\ last.to.isString
     /\ ~StartsWith(last.to.chars, AccPrefix)
     /\ ~isValidIBAN(last.to))
        => ~last.success

IsLookup == last.op = "getAccountByIBAN"

\* the stored accounts whose IBAN equals s once whitespace is removed from both
SameIban(s) ==
    {k \in 1..Len(accounts) :
        StripWhitespace(accounts[k].iban) = StripWhitespace(s)}

\* C17 Whitespace-insensitive exact lookup: getAccountByIBAN(s) returns a
\* stored account whose IBAN equals s after whitespace is removed from both,
\* returns null exactly when no stored IBAN equals s after that, and any
\* string that differs from s only in whitespace resolves to the same account.
C17_LookupIgnoresWhitespace ==
    IsLookup =>
        /\ acct = Null <=> SameIban(last.to.chars) = {}
        /\ acct # Null => \E k \in SameIban(last.to.chars) : acct[1] = accounts[k]
        /\ \A s \in IbanInputs :
            StripWhitespace(s) = StripWhitespace(last.to.chars)
                => getAccountByIBAN(accounts, s) = acct

\* an IBAN typed without its spaces found the account stored with them
C17_Witness ==
    /\ IsLookup
    /\ acct # Null
    /\ acct[1].iban # last.to.chars
    /\ last.to.chars = StripWhitespace(last.to.chars)

(***************************************************************************)
(* Properties of the ledger.                                               *)
(***************************************************************************)
IsPrefix(s, t) == Len(s) <= Len(t) /\ SubSeq(t, 1, Len(s)) = s

IsFee == ret.op = "calculateTransferFee"

\* the fee, in cents, is the percentage of the amount where that lies between
\* the two bounds (to the nearest cent), and the nearer bound elsewhere
FeeIs(fee, amount, percent, lowest, highest) ==
    /\ lowest <= fee /\ fee <= highest
    /\ amount * percent <= 100 * lowest => fee = lowest
    /\ amount * percent >= 100 * highest => fee = highest
    /\ (100 * lowest < amount * percent /\ amount * percent < 100 * highest)
        => /\ 2 * (100 * fee - amount * percent) <= 100
           /\ 2 * (amount * percent - 100 * fee) <= 100

\* C20 Transfer fee: calculateTransferFee returns 1% of the amount kept
\* within [1.00, 5.00] for an internal transfer and 2% of the amount kept
\* within [2.00, 15.00] for an external one, to the nearest cent, and the
\* stored accounts, transactions, users and session are what they were.
C20_FeeIsClampedPercentage ==
    IsFee =>
        /\ IF ret.args[2]
           THEN FeeIs(ret.value, ret.args[1], 2, 200, 1500)
           ELSE FeeIs(ret.value, ret.args[1], 1, 100, 500)
        /\ accounts = SeedAccounts /\ transactions = <<>>
        /\ users = <<>> /\ session = NoSession

\* an internal fee strictly between its bounds that had to be rounded
C20_Witness ==
    /\ IsFee
    /\ ~ret.args[2]
    /\ 100 < ret.value /\ ret.value < 500
    /\ 100 * ret.value # ret.args[1]

(***************************************************************************)
(* Properties of users: the admin page and registration.                   *)
(***************************************************************************)
\* the admin confirmed the deletion of a user other than the logged-in admin
\* and performUserDeletion ran
Deleted == ret.op = "deleteUser" /\ ret.success

\* the ids of the accounts the user owned in the store before the call
OwnedBefore(userId) ==
    {last.accountsBefore[k].id :
        k \in {j \in 1..Len(last.accountsBefore) : last.accountsBefore[j].userId = userId}}

\* C12 Delete cascade: after a confirmed deleteUser(u) of a user other than
\* the logged-in admin, the store holds no user u, no account of u, and no
\* transaction of an account that u owned.
C12_DeleteCascades ==
    Deleted =>
        /\ \A k \in 1..Len(users) : users[k].id # ret.args[1]
        /\ \A k \in 1..Len(accounts) : accounts[k].userId # ret.args[1]
        /\ \A k \in 1..Len(transactions) :
            transactions[k].accountId \notin OwnedBefore(ret.args[1])

\* the part of the cascade the code performs: the user and the accounts
C12_UserAndAccountsRemoved ==
    Deleted =>
        /\ \A k \in 1..Len(users) : users[k].id # ret.args[1]
        /\ \A k \in 1..Len(accounts) : accounts[k].userId # ret.args[1]

\* C13 Unique emails: no two stored users have the same email when emails
\* are compared without regard to case.
C13_UniqueEmails ==
    \A i, j \in 1..Len(users) :
        i # j => ToLowerCase(users[i].email) # ToLowerCase(users[j].email)

Registered == ret.op = "register" /\ ret.success

\* type, balance and isActive of the stored accounts of the user, in order
OwnedAccounts(userId) ==
    LET owned == SelectSeq(accounts, LAMBDA account : account.userId = userId)
    IN  [k \in 1..Len(owned) |-> <<owned[k].type, owned[k].balance, owned[k].isActive>>]

\* C18 Accounts of a new user: after a register that returns success the new
\* user owns exactly two accounts, both active: a checking account with
\* balance 1000 and a savings account with balance 500.
C18_TwoAccounts ==
    Registered =>
        OwnedAccounts(ret.value[1].id)
            = <<<<"checking", 1000, TRUE>>, <<"savings", 500, TRUE>>>>

\* what holds of register as it is: each of the two accounts is in the store
\* exactly when the storage write that adds it succeeded
C18_TwoAccountsWhenStored ==
    Registered =>
        OwnedAccounts(ret.value[1].id)
            = (IF last.writes[2] THEN <<<<"checking", 1000, TRUE>>>> ELSE <<>>)
                \o (IF last.writes[3] THEN <<<<"savings", 500, TRUE>>>> ELSE <<>>)

(***************************************************************************)
(* Properties of the accounts of a user.                                   *)
(***************************************************************************)
\* the stored accounts of the user that are active
ActiveOf(userId) ==
    {k \in 1..Len(accounts) : accounts[k].userId = userId /\ accounts[k].isActive}

\* the sum of the stored balances at the given positions
RECURSIVE SumOfBalances(_)
SumOfBalances(positions) ==
    IF positions = {} THEN 0
    ELSE LET k == CHOOSE p \in positions : TRUE
         IN  accounts[k].balance + SumOfBalances(positions \ {k})

\* C21 Accounts of a user: getAccountsByUserId(u) returns each stored account
\* with userId = u and isActive = true once, and no other account, and
\* getTotalBalance(u) is the sum of the balances of exactly those accounts.
C21_ActiveAccountsOfUser ==
    /\ last.op = "getAccountsByUserId" =>
        /\ Len(ret.value) = Cardinality(ActiveOf(ret.args[1]))
        /\ \A k \in ActiveOf(ret.args[1]) :
            \E i \in 1..Len(ret.value) : ret.value[i] = accounts[k]
        /\ \A i \in 1..Len(ret.value) :
            \E k \in ActiveOf(ret.args[1]) : ret.value[i] = accounts[k]
    /\ last.op = "getTotalBalance" =>
        ret.value = SumOfBalances(ActiveOf(ret.args[1]))

\* the total of a user who has two accounts, one of them inactive: only the
\* balance of the active one is counted
C21_Witness ==
    /\ last.op = "getTotalBalance"
    /\ ret.value > 0
    /\ \E k \in 1..Len(accounts) :
        accounts[k].userId = ret.args[1] /\ ~accounts[k].isActive

(***************************************************************************)
(* Properties of the page whose writes succeed.                            *)
(***************************************************************************)
\* C22 System-wide conservation: whatever processTransfer calls were made,
\* successful or failed, the sum of all stored balances is the sum of the
\* opening balances of the accounts created, and each call leaves the sum
\* it found.
C22_TotalConserved ==
    /\ TotalBalance(accounts) = Len(accounts) * StartBalance
    /\ IsTransfer => TotalBalance(accounts) = TotalBalance(last.accountsBefore)

\* a successful transfer moved money: the balances differ and the sum is kept
C22_Witness ==
    /\ IsTransfer
    /\ last.success
    /\ Len(accounts) = 2
    /\ accounts[1].balance # accounts[2].balance


(***************************************************************************)
(* Properties of the transfer engine under failing writes.                 *)
(***************************************************************************)
\* C27 Success means persisted: a processTransfer one of whose storage
\* writes (the two balances, the two transaction records) returned false
\* reports a failure.
C27_SuccessOnlyIfPersisted ==
    (IsTransfer /\ \E k \in DOMAIN last.writes : ~last.writes[k]) => ~last.success


\* C28 Inactive source: a processTransfer whose source account is stored
\* with isActive = false does not succeed and leaves every stored balance
\* as it was.
C28_InactiveSourceRefused ==
    (IsTransfer /\ HasSender /\ ~X.isActive) =>
        /\ ~last.success
        /\ \A i \in 1..Len(accounts) :
               accounts[i].balance = last.accountsBefore[i].balance


(***************************************************************************)
(* Properties of the admin page and of the session.                        *)
(***************************************************************************)
\* a step that is a deleteUser of the logged-in admin's own row, or of an id
\* no stored user has
DeletesSelfOrNobody ==
    /\ ops' = ops + 1
    /\ ret'.op = "deleteUser"
    /\ admin.currentAdmin # Null
    /\ \/ ret'.args[1] = admin.currentAdmin[1].id
       \/ \A k \in 1..Len(users) : users[k].id # ret'.args[1]

\* C25 The admin is never deleted: deleteUser called with the logged-in
\* admin's own id, or with an id of no existing user, leaves the users,
\* accounts and transactions collections as they were, whatever the answer
\* to the confirm dialog.
C25_AdminNotDeleted ==
    [][DeletesSelfOrNobody => UNCHANGED <<users, accounts, transactions>>]_vars

\* the admin confirmed the deletion of their own row and is still stored
C25_Witness ==
    /\ ret.op = "deleteUser"
    /\ admin.currentAdmin # Null
    /\ ret.args = <<admin.currentAdmin[1].id, TRUE>>
    /\ \E k \in 1..Len(users) : users[k].id = ret.args[1]


\* C24 Registration logs in: after a register that returns success the
\* session user, in memory and under the 'currentUser' key, is the user
\* that was registered.
C24_RegisteredIsLoggedIn ==
    Registered =>
        /\ session.currentUser # Null
        /\ session.currentUser[1].id = ret.value[1].id
        /\ session.stored # Null
        /\ session.stored[1].id = ret.value[1].id


\* a step that is a login with the email of a stored user whose isActive
\* flag is false
LoginOfInactive ==
    /\ ops' = ops + 1
    /\ ret'.op = "login"
    /\ getUserByEmail(users, ret'.args[1]) # Null
    /\ ~getUserByEmail(users, ret'.args[1])[1].isActive

C29_SessionUserStoredAndActive ==
    isAuthenticated(session) =>
        \E k \in 1..Len(users) :
            /\ users[k].id = session.currentUser[1].id
            /\ users[k].isActive

\* a step that is a successful changePassword, or a successful login of a
\* stored user
AcceptsPassword ==
    /\ ops' = ops + 1
    /\ ret'.success
    /\ \/ ret'.op = "changePassword"
       \/ ret'.op = "login"

\* the stored user whose password the step was about
PasswordOwner ==
    IF ret'.op = "login" THEN getUserByEmail(users, ret'.args[1])
    ELSE LET i == FirstIndex({k \in 1..Len(users) :
                                 users[k].id = session.currentUser[1].id})
         IN  IF i = 0 THEN Null ELSE Some(users[i])

\* the password the step presented as the current one
PresentedPassword == IF ret'.op = "login" THEN ret'.args[2] ELSE ret'.args[1]

\* C30 One current password: the password stored for a user is the one login
\* and changePassword accept as current; after a successful
\* changePassword(old, new) a login or a further changePassword succeeds
\* only if it presents new.
C30_StoredPasswordIsCurrent ==
    [][AcceptsPassword =>
        /\ PasswordOwner # Null
        /\ PasswordOwner[1].password = hashPassword(PresentedPassword)]_vars


(***************************************************************************)
(* Properties of the dashboard's transfer form.                            *)
(***************************************************************************)
\* the form asked for an external transfer of an amount the source covers,
\* to the IBAN of an active account of another user
ExternalToGeneratedIban ==
    /\ last.op = "dashboardTransfer"
    /\ ret.args[1].toAccount = External
    /\ ParseFloat(ret.args[1].amount) # Null
    /\ ParseFloat(ret.args[1].amount)[1] > 0
    /\ \E i, j \in 1..Len(last.accountsBefore) :
        /\ last.accountsBefore[i].id = ret.args[1].fromAccount
        /\ last.accountsBefore[i].balance >= ParseFloat(ret.args[1].amount)[1]
        /\ last.accountsBefore[j].iban = ret.args[1].ibanAccount
        /\ last.accountsBefore[j].isActive
        /\ last.accountsBefore[j].userId # last.accountsBefore[i].userId

\* C23 External transfers by IBAN: an external transfer submitted through
\* the form, addressed to the IBAN generated for an active account of another
\* user and sent from an account that covers the amount, reaches the
\* transfer engine and succeeds.
C23_ExternalTransferSucceeds ==
    ExternalToGeneratedIban => (ret.value /\ ret.success)

====
